---- MODULE Spec2Model ----
(***************************************************************************)
(* Model of the chat widget of static/chat.js: the panel's visibility and *)
(* layout toggles, the conversation history, the transcript (the children *)
(* of #chat-messages) and the request/response exchanges started by       *)
(* sendMessage, with the promise reactions of each exchange as steps.     *)
(*                                                                         *)
(* Text is a sequence of one-character strings; markup produced by        *)
(* formatMessage is a sequence whose tags are single elements.            *)
(***************************************************************************)
EXTENDS Integers, Sequences, FiniteSets, TLC

VARIABLES
    chatWindow,   \* chatWindow.classList, a set of class names
    icon,         \* classList of the <i> element inside maxBtn
    chatInput,    \* chatInput.value
    chatHistory,  \* the chatHistory array
    transcript,   \* the children of chatMessages, in document order
    now,          \* the value Date.now() returns
    exchanges,    \* one record per sendMessage call that issued a request
    last          \* history variable: the step taken last and the view it was taken in

vars == <<chatWindow, icon, chatInput, chatHistory, transcript, now, exchanges, last>>

(***************************************************************************)
(* Bounds.                                                                 *)
(***************************************************************************)
\* number of sendMessage calls that issue a request in one behaviour
MaxSends == 2

(***************************************************************************)
(* Text.                                                                   *)
(***************************************************************************)
NL == "\n"

\* the character U+0060, which a TLA+ string cannot hold
BackQuote == "(backquote)"

\* characters String.prototype.trim strips and the regex class \s matches
IsSpace(c) == c \in {" ", NL}

RECURSIVE TrimStart(_)
TrimStart(s) ==
    IF s # <<>> /\ IsSpace(Head(s)) THEN TrimStart(Tail(s)) ELSE s

RECURSIVE TrimEnd(_)
TrimEnd(s) ==
    IF s # <<>> /\ IsSpace(s[Len(s)]) THEN TrimEnd(SubSeq(s, 1, Len(s) - 1)) ELSE s

\* the input used as it is, without a call of trim
NoTrim(s) == s

\* String.prototype.trim
Trim(s) == TrimEnd(TrimStart(s))

(***************************************************************************)
(* JavaScript values that a parsed response body and a turn's parts hold.  *)
(***************************************************************************)
Str(s) == [t |-> "string", s |-> s]
Undefined == [t |-> "undefined"]
Null == [t |-> "null"]
IsString(v) == v.t = "string"

(***************************************************************************)
(* formatMessage: five String.prototype.replace calls with global regular  *)
(* expressions, each scanning left to right for non-overlapping matches.   *)
(***************************************************************************)
Idx(s) == 1..Len(s)

Least(S) == CHOOSE j \in S : \A k \in S : j <= k

NoNL(s, from, upto) == \A k \in from..upto : s[k] # NL

\* /\*\*(.*?)\*\*/g -> <strong>$1</strong>
BoldClose(s, i) == {j \in (i + 2)..(Len(s) - 1) : s[j] = "*" /\ s[j + 1] = "*"}

BoldAt(s, i) ==
    /\ i + 1 <= Len(s)
    /\ s[i] = "*"
    /\ s[i + 1] = "*"
    /\ BoldClose(s, i) # {}
    /\ NoNL(s, i + 2, Least(BoldClose(s, i)) - 1)

RECURSIVE ReplaceBold(_, _)
ReplaceBold(s, i) ==
    IF i > Len(s) THEN <<>>
    ELSE IF BoldAt(s, i)
    THEN LET j == Least(BoldClose(s, i))
         IN  <<"<strong>">> \o SubSeq(s, i + 2, j - 1) \o <<"</strong>">>
                 \o ReplaceBold(s, j + 2)
    ELSE <<s[i]>> \o ReplaceBold(s, i + 1)

\* /\*(.*?)\*/g -> <em>$1</em>
ItalicClose(s, i) == {j \in (i + 1)..Len(s) : s[j] = "*"}

ItalicAt(s, i) ==
    /\ s[i] = "*"
    /\ ItalicClose(s, i) # {}
    /\ NoNL(s, i + 1, Least(ItalicClose(s, i)) - 1)

RECURSIVE ReplaceItalic(_, _)
ReplaceItalic(s, i) ==
    IF i > Len(s) THEN <<>>
    ELSE IF ItalicAt(s, i)
    THEN LET j == Least(ItalicClose(s, i))
         IN  <<"<em>">> \o SubSeq(s, i + 1, j - 1) \o <<"</em>">>
                 \o ReplaceItalic(s, j + 1)
    ELSE <<s[i]>> \o ReplaceItalic(s, i + 1)

\* /`([^`]+)`/g -> <code>$1</code>
CodeClose(s, i) == {j \in (i + 1)..Len(s) : s[j] = BackQuote}

CodeAt(s, i) ==
    /\ s[i] = BackQuote
    /\ CodeClose(s, i) # {}
    /\ Least(CodeClose(s, i)) > i + 1

RECURSIVE ReplaceCode(_, _)
ReplaceCode(s, i) ==
    IF i > Len(s) THEN <<>>
    ELSE IF CodeAt(s, i)
    THEN LET j == Least(CodeClose(s, i))
         IN  <<"<code>">> \o SubSeq(s, i + 1, j - 1) \o <<"</code>">>
                 \o ReplaceCode(s, j + 1)
    ELSE <<s[i]>> \o ReplaceCode(s, i + 1)

\* /\n\s*-\s/g -> <br>, the bullet glyph U+2022 and a space
BulletGlyph == "(bullet)"

NonSpaceAfter(s, i) == {k \in (i + 1)..Len(s) : ~IsSpace(s[k])}

BulletAt(s, i) ==
    /\ s[i] = NL
    /\ NonSpaceAfter(s, i) # {}
    /\ LET k == Least(NonSpaceAfter(s, i))
       IN  s[k] = "-" /\ k + 1 <= Len(s) /\ IsSpace(s[k + 1])

RECURSIVE ReplaceBullet(_, _)
ReplaceBullet(s, i) ==
    IF i > Len(s) THEN <<>>
    ELSE IF BulletAt(s, i)
    THEN LET k == Least(NonSpaceAfter(s, i))
         IN  <<"<br>", BulletGlyph, " ">> \o ReplaceBullet(s, k + 2)
    ELSE <<s[i]>> \o ReplaceBullet(s, i + 1)

\* /\n/g -> <br>
ReplaceNewline(s) == [k \in Idx(s) |-> IF s[k] = NL THEN "<br>" ELSE s[k]]

\* the italic replacement run before the bold one
formatItalicFirst(text) ==
    ReplaceNewline(
        ReplaceBullet(
            ReplaceCode(
                ReplaceBold(
                    ReplaceItalic(text, 1), 1), 1), 1))

formatMessage(text) ==
    ReplaceNewline(
        ReplaceBullet(
            ReplaceCode(
                ReplaceItalic(
                    ReplaceBold(text, 1), 1), 1), 1))

(***************************************************************************)
(* Inputs.                                                                 *)
(***************************************************************************)
\* what the user leaves in the text field before a click on send or Enter
Inputs == {<<>>, <<" ", NL>>, <<" ", "h", "i", " ">>}

\* response texts of the endpoint
Responses == {<<"*", "*", "o", "k", "*", "*", NL, "-", " ", "x">>}

\* bodies response.json() resolves with: null, an object without a response
\* field, an object whose response is a string.  (A response that is no
\* string, such as a number, takes the path of the missing field: it is
\* pushed to chatHistory and formatMessage throws on its missing replace.)
Obj(v) == [t |-> "object", response |-> v]

Datas == {Null, Obj(Undefined)} \cup {Obj(Str(r)) : r \in Responses}

(***************************************************************************)
(* The transcript.  An entry is a child element of chatMessages: its       *)
(* sender class, its id attribute (NoId when it has none), its content,    *)
(* whether the content was set through innerHTML, and the sendMessage call *)
(* whose code created the element (the element's identity).                *)
(***************************************************************************)
NoId == -1

Apology == <<"Sorry, something went wrong. Please try again.">>

TypingIndicator == <<"<div class=typing-indicator>">>

scrollToBottom(tr) == tr

addMessage(tr, text, sender, isHtml, owner) ==
    scrollToBottom(Append(tr, [kind |-> sender, id |-> NoId, content |-> text,
                               isHtml |-> isHtml, owner |-> owner]))

\* the identifier addLoading builds from Date.now()
LoadingId(t) == t

addLoading(tr, owner) ==
    scrollToBottom(Append(tr, [kind |-> "loading", id |-> LoadingId(now),
                               content |-> TypingIndicator, isHtml |-> TRUE,
                               owner |-> owner]))

\* document.getElementById: the first element in document order with the id
getElementById(tr, id) ==
    LET hits == {k \in 1..Len(tr) : tr[k].id = id}
    IN  IF hits = {} THEN 0 ELSE Least(hits)

RemoveAt(tr, k) == SubSeq(tr, 1, k - 1) \o SubSeq(tr, k + 1, Len(tr))

removeLoading(tr, id) ==
    LET el == getElementById(tr, id)
    IN  IF el # 0 THEN RemoveAt(tr, el) ELSE tr

(***************************************************************************)
(* The view.                                                               *)
(***************************************************************************)
isOpen == "d-none" \notin chatWindow

isMaximized == "maximized" \in chatWindow

\* DOMTokenList.toggle
Toggle(classes, c) == IF c \in classes THEN classes \ {c} ELSE classes \cup {c}

(***************************************************************************)
(* History variables.                                                      *)
(***************************************************************************)
\* last.op names the step taken last and last.ex its exchange (0: none);
\* last.view is the view that step started in; last.rep says that the step
\* before it was the same click, and last.view2 is then the view that earlier
\* click started in (otherwise last.view2 = last.view).
CurrentView == [chatWindow |-> chatWindow, icon |-> icon]

Clicks == {"bubble", "close", "max"}

Record(op, e) ==
    LET rep == op \in Clicks /\ last.op = op
    IN  last' = [op |-> op, ex |-> e, rep |-> rep, view |-> CurrentView,
                 view2 |-> IF rep THEN last.view ELSE CurrentView]

\* no promise reaction is waiting: the microtask queue is empty, so the
\* event loop may run the next event's handler
Idle == \A e \in 1..Len(exchanges) : exchanges[e].pc # "thrown"

(***************************************************************************)
(* Initial state: the DOMContentLoaded handler has run.                    *)
(***************************************************************************)
Init ==
    /\ chatWindow \in {{"chat-window", "d-none"}, {"chat-window"}}
    /\ icon = {"bi", "bi-arrows-fullscreen"}
    /\ chatInput = <<>>
    /\ chatHistory = <<>>
    /\ transcript = <<>>
    /\ now = 0
    /\ exchanges = <<>>
    /\ last = [op |-> "init", ex |-> 0, rep |-> FALSE, view |-> CurrentView,
               view2 |-> CurrentView]

(***************************************************************************)
(* The environment: the clock advances, the user edits the text field.     *)
(***************************************************************************)
\* A tick is observable only through an identifier built from the value it
\* replaces, so the clock advances only past a value some call has read.
Tick ==
    /\ \E e \in 1..Len(exchanges) : exchanges[e].loadingId = LoadingId(now)
    /\ now' = now + 1
    /\ Record("tick", 0)
    /\ UNCHANGED <<chatWindow, icon, chatInput, chatHistory, transcript, exchanges>>

SetInput(v) ==
    /\ Idle
    /\ v # chatInput
    /\ chatInput' = v
    /\ Record("input", 0)
    /\ UNCHANGED <<chatWindow, icon, chatHistory, transcript, now, exchanges>>

(***************************************************************************)
(* Click handlers of the bubble, the close button and the maximize button. *)
(***************************************************************************)
BubbleToggle(classes) == Toggle(classes, "d-none")

BubbleClick ==
    /\ Idle
    /\ chatWindow' = BubbleToggle(chatWindow)
    /\ Record("bubble", 0)
    /\ UNCHANGED <<icon, chatInput, chatHistory, transcript, now, exchanges>>

\* the close button toggling the class as the bubble does
CloseToggle(classes) == Toggle(classes, "d-none")

CloseAdd(classes) == classes \cup {"d-none"}

\* a close handler that also resets the conversation
CloseClickClearing ==
    /\ Idle
    /\ chatWindow' = CloseAdd(chatWindow)
    /\ chatHistory' = <<>>
    /\ Record("close", 0)
    /\ UNCHANGED <<icon, chatInput, transcript, now, exchanges>>

CloseClick ==
    /\ Idle
    /\ chatWindow' = CloseAdd(chatWindow)
    /\ Record("close", 0)
    /\ UNCHANGED <<icon, chatInput, chatHistory, transcript, now, exchanges>>

\* the icon classes added without removing the other glyph
MaxIconAddOnly(classes, ic) ==
    IF "maximized" \in classes
    THEN ic \cup {"bi-fullscreen-exit"}
    ELSE ic \cup {"bi-arrows-fullscreen"}

MaxIcon(classes, ic) ==
    IF "maximized" \in classes
    THEN (ic \ {"bi-arrows-fullscreen"}) \cup {"bi-fullscreen-exit"}
    ELSE (ic \ {"bi-fullscreen-exit"}) \cup {"bi-arrows-fullscreen"}

\* a maximize handler that also shows the panel
MaxClickOpens ==
    /\ Idle
    /\ chatWindow' = Toggle(chatWindow, "maximized") \ {"d-none"}
    /\ icon' = MaxIcon(chatWindow', icon)
    /\ Record("max", 0)
    /\ UNCHANGED <<chatInput, chatHistory, transcript, now, exchanges>>

MaxClick ==
    /\ Idle
    /\ chatWindow' = Toggle(chatWindow, "maximized")
    /\ icon' = MaxIcon(chatWindow', icon)
    /\ Record("max", 0)
    /\ UNCHANGED <<chatInput, chatHistory, transcript, now, exchanges>>

(***************************************************************************)
(* sendMessage, up to the fetch call.  An exchange records the call's      *)
(* message, the request body serialized by JSON.stringify, the identifier  *)
(* addLoading returned, where its promise chain stands (pending: no        *)
(* reaction has run; thrown: the success handler threw and the catch       *)
(* reaction is queued; done; failed), and the positions in chatHistory of  *)
(* the turns its code pushed (0: none).                                    *)
(***************************************************************************)
UserTurn(message) == [role |-> "user", parts |-> <<Str(message)>>]

ModelTurn(responseText) == [role |-> "model", parts |-> <<responseText>>]

\* unshift in place of push
PushFront(history, turn) == <<turn>> \o history

\* Array.prototype.push
Push(history, turn) == Append(history, turn)

\* the body serialized before the user turn is pushed
RequestBodyBeforePush(message, history) ==
    [message |-> message, history |-> SubSeq(history, 1, Len(history) - 1)]

RequestBody(message, history) == [message |-> message, history |-> history]

NewExchange(message, history, loadingId) ==
    [message |-> message, body |-> RequestBody(message, history),
     loadingId |-> loadingId, pc |-> "pending",
     userTurn |-> Len(history), modelTurn |-> 0]

SendMessage ==
    /\ Idle
    /\ Record("sendMessage", 0)
    /\ LET message == Trim(chatInput)
       IN  IF message = <<>>
           THEN UNCHANGED <<chatInput, chatHistory, transcript, exchanges>>
           ELSE /\ Len(exchanges) < MaxSends
                /\ LET e == Len(exchanges) + 1
                       shown == addMessage(transcript, message, "user", FALSE, e)
                       history == Push(chatHistory, UserTurn(message))
                   IN  /\ chatInput' = <<>>
                       /\ chatHistory' = history
                       /\ transcript' = addLoading(shown, e)
                       /\ exchanges' = Append(exchanges,
                              NewExchange(message, history, LoadingId(now)))
    /\ UNCHANGED <<chatWindow, icon, now>>

(***************************************************************************)
(* The promise reactions of one exchange.                                  *)
(***************************************************************************)
SetPc(e, pc) == [exchanges EXCEPT ![e].pc = pc]

\* a .catch handler that leaves the placeholder in place
CatchBodyKeepLoading(e) ==
    transcript' = addMessage(transcript, Apology, "bot", FALSE, e)

\* a .catch handler that passes isHtml = true for the apology
CatchBodyHtml(e) ==
    transcript' = addMessage(removeLoading(transcript, exchanges[e].loadingId),
                             Apology, "bot", TRUE, e)

\* the .catch handler
CatchBody(e) ==
    transcript' = addMessage(removeLoading(transcript, exchanges[e].loadingId),
                             Apology, "bot", FALSE, e)

\* fetch rejects, or response.json() rejects: both .then handlers are
\* skipped and the .catch handler runs
Reject(e) ==
    /\ e \in 1..Len(exchanges)
    /\ exchanges[e].pc = "pending"
    /\ CatchBody(e)
    /\ exchanges' = SetPc(e, "failed")
    /\ Record("reject", e)
    /\ UNCHANGED <<chatWindow, icon, chatInput, chatHistory, now>>

\* the second .then handler, called with the parsed body
Then(e, data) ==
    /\ e \in 1..Len(exchanges)
    /\ exchanges[e].pc = "pending"
    /\ Record("then", e)
    /\ LET cleared == removeLoading(transcript, exchanges[e].loadingId)
       IN  IF data.t = "null"
           THEN \* data.response throws a TypeError
                /\ transcript' = cleared
                /\ exchanges' = SetPc(e, "thrown")
                /\ UNCHANGED chatHistory
           ELSE LET responseText == data.response
                    history == Push(chatHistory, ModelTurn(responseText))
                IN  /\ chatHistory' = history
                    /\ IF IsString(responseText)
                       THEN /\ transcript' = addMessage(cleared,
                                   formatMessage(responseText.s), "bot", TRUE, e)
                            /\ exchanges' = [exchanges EXCEPT
                                   ![e].pc = "done", ![e].modelTurn = Len(history)]
                       ELSE \* text.replace is not a function: formatMessage throws
                            /\ transcript' = cleared
                            /\ exchanges' = [exchanges EXCEPT
                                   ![e].pc = "thrown", ![e].modelTurn = Len(history)]
    /\ UNCHANGED <<chatWindow, icon, chatInput, now>>

\* the .catch handler, run for an exception of the success handler
Catch(e) ==
    /\ e \in 1..Len(exchanges)
    /\ exchanges[e].pc = "thrown"
    /\ CatchBody(e)
    /\ exchanges' = SetPc(e, "failed")
    /\ Record("catch", e)
    /\ UNCHANGED <<chatWindow, icon, chatInput, chatHistory, now>>

Resolve(e) == Reject(e) \/ (\E data \in Datas : Then(e, data)) \/ Catch(e)

Next ==
    \/ Tick
    \/ \E v \in Inputs : SetInput(v)
    \/ BubbleClick
    \/ CloseClick
    \/ MaxClick
    \/ SendMessage
    \/ \E e \in 1..MaxSends : Reject(e)
    \/ \E e \in 1..MaxSends : \E data \in Datas : Then(e, data)
    \/ \E e \in 1..MaxSends : Catch(e)

Spec == Init /\ [][Next]_vars

\* the transport eventually resolves or rejects every request, and a queued
\* promise reaction eventually runs
FairSpec == Spec /\ \A e \in 1..MaxSends : WF_vars(Resolve(e))

(***************************************************************************)
(* The formatter on its own: one request is sent and the endpoint answers  *)
(* it with any text over Alphabet of at most MaxLen characters, or with    *)
(* Example; the success handler formats and renders the answer.            *)
(***************************************************************************)
\* length of the response texts
MaxLen == 6

Alphabet == {"*", BackQuote, NL, " ", "-", "a"}

Example ==
    <<"*", "*", "a", "*", "*", " ", "*", "b", "*", " ", BackQuote, "c", BackQuote,
      NL, "-", " ", "d">>

Texts == UNION {[1..n -> Alphabet] : n \in 0..MaxLen} \cup {Example}

FormatNext ==
    \/ exchanges = <<>> /\ \E v \in Inputs : SetInput(v)
    \/ exchanges = <<>> /\ SendMessage
    \/ /\ Len(exchanges) = 1
       /\ exchanges[1].pc = "pending"
       /\ \E r \in Texts : Then(1, Obj(Str(r)))

FormatSpec == Init /\ [][FormatNext]_vars

(***************************************************************************)
(* Vocabulary of the properties.                                           *)
(***************************************************************************)
Range(f) == {f[k] : k \in DOMAIN f}

IsPrefix(s, t) == Len(s) <= Len(t) /\ SubSeq(t, 1, Len(s)) = s

\* empty, or made of blanks and line terminators only
Blank(s) == \A k \in 1..Len(s) : s[k] \in {" ", NL}

\* t is s without its leading and trailing blanks
IsTrimOf(t, s) ==
    \E i \in 1..(Len(s) + 1) : \E j \in 0..Len(s) :
        /\ t = SubSeq(s, i, j)
        /\ Blank(SubSeq(s, 1, i - 1))
        /\ Blank(SubSeq(s, j + 1, Len(s)))
        /\ t # <<>> => t[1] \notin {" ", NL} /\ t[Len(t)] \notin {" ", NL}

Started == 1..Len(exchanges)

\* the placeholder element created by call e is in the transcript
HasPlaceholder(e) ==
    \E k \in 1..Len(transcript) :
        transcript[k].kind = "loading" /\ transcript[k].owner = e

BotEntries(e) ==
    {k \in 1..Len(transcript) : transcript[k].kind = "bot" /\ transcript[k].owner = e}

Resolved(e) == e \in Started /\ exchanges[e].pc \in {"done", "failed"}

Resolving(op) == op \in {"reject", "then", "catch"}

(***************************************************************************)
(* C1.  A sendMessage call whose trimmed input is not empty appends        *)
(* exactly one turn {role: user, parts: [trimmed input]} to the history    *)
(* and issues one request, whose body carries the message and the whole    *)
(* history as it then stands, that turn last.                              *)
(***************************************************************************)
C1_SendAppendsUserTurn ==
    [][(last'.op = "sendMessage" /\ ~Blank(chatInput)) =>
        LET e == Len(exchanges')
            turn == chatHistory'[Len(chatHistory')]
        IN  /\ Len(exchanges') = Len(exchanges) + 1
            /\ SubSeq(exchanges', 1, Len(exchanges)) = exchanges
            /\ Len(chatHistory') = Len(chatHistory) + 1
            /\ IsPrefix(chatHistory, chatHistory')
            /\ turn.role = "user"
            /\ Len(turn.parts) = 1
            /\ turn.parts[1].t = "string"
            /\ IsTrimOf(turn.parts[1].s, chatInput)
            /\ exchanges'[e].pc = "pending"
            /\ exchanges'[e].body.message = turn.parts[1].s
            /\ exchanges'[e].body.history = chatHistory'
            /\ exchanges'[e].body.history[Len(chatHistory')] = turn]_vars

\* a second call has just issued its request while the first is in flight
C1_Witness ==
    /\ last.op = "sendMessage"
    /\ Len(exchanges) = 2
    /\ exchanges[1].pc = "pending"
    /\ exchanges[2].pc = "pending"
    /\ Len(chatHistory) = 2
    /\ exchanges[2].body.history = chatHistory
    /\ chatHistory[2] = [role |-> "user", parts |-> <<Str(<<"h", "i">>)>>]

(***************************************************************************)
(* C2.  A sendMessage call whose input is empty or made of white space     *)
(* changes nothing: transcript, history, input field and exchanges stay    *)
(* as they were, so no request is issued.                                  *)
(***************************************************************************)
C2_BlankSendChangesNothing ==
    [][(last'.op = "sendMessage" /\ Blank(chatInput)) =>
        UNCHANGED <<transcript, chatHistory, chatInput, exchanges, chatWindow,
                    icon>>]_vars

\* sendMessage has just run on a white-space input, with a request in flight
C2_Witness ==
    /\ last.op = "sendMessage"
    /\ chatInput = <<" ", NL>>
    /\ Len(exchanges) = 1
    /\ exchanges[1].pc = "pending"
    /\ Len(transcript) = 2

(***************************************************************************)
(* C3.  An exchange that ended by rendering the apology added no turn to   *)
(* the history, its placeholder is gone, and the apology is the last       *)
(* transcript entry when its handler returns; this for every cause that    *)
(* reaches the failure handler.                                            *)
(***************************************************************************)
C3_FailureAddsNoTurn ==
    \A e \in Started :
        exchanges[e].pc = "failed" =>
            /\ exchanges[e].modelTurn = 0
            /\ ~HasPlaceholder(e)
            /\ (Resolving(last.op) /\ last.ex = e) =>
                   /\ transcript[Len(transcript)].content = Apology
                   /\ transcript[Len(transcript)].owner = e

(***************************************************************************)
(* C4.  An exchange that resolved successfully with response text r has    *)
(* pushed exactly one turn {role: model, parts: [r]}, has appended one bot *)
(* entry holding formatMessage(r), and its placeholder is no longer in     *)
(* the transcript.                                                         *)
(***************************************************************************)
C4_SuccessAppendsModelTurn ==
    \A e \in Started :
        exchanges[e].pc = "done" =>
            /\ exchanges[e].modelTurn \in 1..Len(chatHistory)
            /\ LET turn == chatHistory[exchanges[e].modelTurn]
               IN  /\ turn.role = "model"
                   /\ Len(turn.parts) = 1
                   /\ turn.parts[1].t = "string"
                   /\ Cardinality(BotEntries(e)) = 1
                   /\ \A k \in BotEntries(e) :
                          /\ transcript[k].isHtml
                          /\ transcript[k].content = formatMessage(turn.parts[1].s)
            /\ ~HasPlaceholder(e)

(***************************************************************************)
(* C5.  A resolution step of an exchange removes from the transcript the   *)
(* placeholder its own call created, and no other entry, also when two     *)
(* placeholders carry the same identifier.                                 *)
(***************************************************************************)
C5_ResolutionRemovesOwnPlaceholder ==
    [][Resolving(last'.op) =>
        /\ \A k \in 1..Len(transcript) :
               \/ transcript[k] \in Range(transcript')
               \/ transcript[k].kind = "loading" /\ transcript[k].owner = last'.ex
        /\ \A k \in 1..Len(transcript') :
               ~(transcript'[k].kind = "loading" /\ transcript'[k].owner = last'.ex)]_vars

(***************************************************************************)
(* C6.  Under FairSpec every exchange that was started eventually is       *)
(* resolved with its placeholder removed and exactly one bot entry of its  *)
(* own in the transcript; at no time has an exchange two bot entries, or   *)
(* a resolved one none; and once every exchange is resolved the            *)
(* transcript holds no placeholder.                                        *)
(***************************************************************************)
Completed(e) ==
    Resolved(e) /\ ~HasPlaceholder(e) /\ Cardinality(BotEntries(e)) = 1

C6_EveryExchangeCompletes ==
    /\ \A e \in 1..MaxSends : (e \in Started) ~> Completed(e)
    /\ [](\A e \in Started :
             Cardinality(BotEntries(e)) = IF Resolved(e) THEN 1 ELSE 0)
    /\ []((\A e \in Started : Resolved(e)) =>
             \A k \in 1..Len(transcript) : transcript[k].kind # "loading")

\* two exchanges with the same identifier, the second resolved first, one
\* with a response and one with the apology
C6_Witness ==
    /\ Len(exchanges) = 2
    /\ exchanges[1].loadingId = exchanges[2].loadingId
    /\ exchanges[1].pc = "done"
    /\ exchanges[2].pc = "failed"
    /\ last.ex = 1
    /\ Completed(1)
    /\ Completed(2)

(***************************************************************************)
(* C7.  The model turn of a successful exchange sits in the history right  *)
(* after the user turn of the same exchange.                               *)
(***************************************************************************)
C7_ReplyFollowsItsUserTurn ==
    \A e \in Started :
        exchanges[e].pc = "done" =>
            exchanges[e].modelTurn = exchanges[e].userTurn + 1

(***************************************************************************)
(* C8.  The history is append-only: in every step the history before the   *)
(* step is a prefix of the history after it.                               *)
(***************************************************************************)
C8_HistoryAppendOnly == [][IsPrefix(chatHistory, chatHistory')]_vars

\* a history of user and model turns that a resolution has just extended
C8_Witness ==
    /\ last.op = "then"
    /\ Len(chatHistory) = 4
    /\ chatHistory[1].role = "user"
    /\ chatHistory[2].role = "model"
    /\ chatHistory[4].role = "model"

(***************************************************************************)
(* C9.  Two bubble clicks in a row that start with the panel closed leave  *)
(* it closed, and two maximize clicks in a row leave the maximized class   *)
(* and the icon's classes as they were before the first.                   *)
(***************************************************************************)
C9_TwoTogglesRestore ==
    /\ (last.op = "bubble" /\ last.rep /\ "d-none" \in last.view2.chatWindow)
           => ~isOpen
    /\ (last.op = "max" /\ last.rep)
           => /\ isMaximized = ("maximized" \in last.view2.chatWindow)
              /\ icon = last.view2.icon

\* two maximize clicks in a row, started from the maximized layout
C9_Witness ==
    /\ last.op = "max"
    /\ last.rep
    /\ "maximized" \in last.view2.chatWindow
    /\ "maximized" \notin last.view.chatWindow
    /\ "bi-fullscreen-exit" \in icon

C11_ViewClicksKeepConversation ==
    [][/\ last'.op \in Clicks =>
              UNCHANGED <<chatHistory, transcript, chatInput, exchanges, now>>
       /\ (Resolving(last'.op) /\ ~isOpen) =>
              LET e == last'.ex
              IN  /\ UNCHANGED <<chatWindow, icon, chatInput>>
                  /\ exchanges'[e].pc # "pending"
                  /\ \A f \in Started : f # e => exchanges'[f] = exchanges[f]
                  /\ exchanges'[e].pc \in {"done", "failed"} =>
                         /\ Len(transcript') >= 1
                         /\ transcript'[Len(transcript')].kind = "bot"
                         /\ transcript'[Len(transcript')].owner = e
                  /\ exchanges'[e].pc = "done" =>
                         /\ chatHistory' = Append(chatHistory,
                                chatHistory'[Len(chatHistory')])
                         /\ chatHistory'[Len(chatHistory')].role = "model"
                         /\ transcript'[Len(transcript')].isHtml
                  /\ exchanges'[e].pc = "failed" =>
                         transcript'[Len(transcript')].content = Apology]_vars

\* a request sent with the panel open was answered after the panel was
\* closed: the reply is in the history and in the transcript
C11_Witness ==
    /\ last.op = "then"
    /\ "d-none" \in last.view.chatWindow
    /\ ~isOpen
    /\ Len(exchanges) = 1
    /\ exchanges[1].pc = "done"
    /\ Len(chatHistory) = 2
    /\ transcript[Len(transcript)].kind = "bot"

(***************************************************************************)
(* C12.  At most one exchange is outstanding at any time.                  *)
(***************************************************************************)
Outstanding == {e \in Started : ~Resolved(e)}

C12_OneExchangeAtATime == Cardinality(Outstanding) <= 1

(***************************************************************************)
(* Vocabulary of the formatter's properties.                               *)
(***************************************************************************)
Count(s, c) == Cardinality({k \in 1..Len(s) : s[k] = c})

\* the exchanges that rendered a response
Rendered == {e \in Started : exchanges[e].pc = "done"}

\* the response text exchange e received, and what was rendered for it
ResponseOf(e) == chatHistory[exchanges[e].modelTurn].parts[1].s

OutputOf(e) == transcript[CHOOSE k \in BotEntries(e) : TRUE].content

Spaces(s, from, upto) == \A k \in from..upto : s[k] = " "

\* t is pre ** x ** post with x on one line and no other asterisk in t
OneBoldSpan(t) ==
    /\ Count(t, "*") = 4
    /\ \E i \in 1..Len(t) : \E j \in (i + 2)..(Len(t) - 1) :
           /\ t[i] = "*" /\ t[i + 1] = "*" /\ t[j] = "*" /\ t[j + 1] = "*"
           /\ \A k \in (i + 2)..(j - 1) : t[k] # NL

\* t holds a newline, then optional white space, a hyphen and a white space
HasBulletLine(t) ==
    \E i \in 1..Len(t) : \E k \in (i + 1)..(Len(t) - 1) :
        /\ t[i] = NL
        /\ \A m \in (i + 1)..(k - 1) : t[m] \in {" ", NL}
        /\ t[k] = "-"
        /\ t[k + 1] \in {" ", NL}

\* out holds a plain line break, then optional blanks and a literal hyphen
\* with a blank or a line break after it
PlainBreakThenHyphen(out) ==
    \E i \in 1..Len(out) : \E k \in (i + 1)..(Len(out) - 1) :
        /\ out[i] = "<br>"
        /\ Spaces(out, i + 1, k - 1)
        /\ out[k] = "-"
        /\ out[k + 1] \in {" ", "<br>"}

ExampleOutput ==
    <<"<strong>", "a", "</strong>", " ", "<em>", "b", "</em>", " ",
      "<code>", "c", "</code>", "<br>", BulletGlyph, " ", "d">>

Identifiers == {LoadingId(t) : t \in 0..(now + 1)}

C14_RemoveLoadingIdempotent ==
    \A id \in Identifiers :
        /\ removeLoading(removeLoading(transcript, id), id)
               = removeLoading(transcript, id)
        /\ (\A k \in 1..Len(transcript) : transcript[k].id # id)
               => removeLoading(transcript, id) = transcript

(***************************************************************************)
(* C15.  The placeholders in the transcript are those of the exchanges in  *)
(* flight: an exchange none of whose reactions has run has its placeholder *)
(* in the transcript, and a resolved exchange has not.                     *)
(***************************************************************************)
C15_PlaceholdersMatchInFlight ==
    \A e \in Started :
        /\ exchanges[e].pc = "pending" => HasPlaceholder(e)
        /\ Resolved(e) => ~HasPlaceholder(e)

C17_MaximizeIndependent ==
    /\ last.op = "max" =>
           /\ isMaximized = ("maximized" \notin last.view.chatWindow)
           /\ isOpen = ("d-none" \notin last.view.chatWindow)
    /\ last.op \in {"bubble", "close"} =>
           /\ isMaximized = ("maximized" \in last.view.chatWindow)
           /\ icon = last.view.icon
    /\ Idle => ENABLED MaxClick
    /\ ("bi-fullscreen-exit" \in icon) = isMaximized
    /\ ("bi-arrows-fullscreen" \in icon) = ~isMaximized

\* the closed panel has just been maximized
C17_Witness ==
    /\ last.op = "max"
    /\ "d-none" \in last.view.chatWindow
    /\ ~isOpen
    /\ isMaximized
    /\ "bi-fullscreen-exit" \in icon

(***************************************************************************)
(* C18.  The counts agree: requests issued = user turns in the history =   *)
(* user entries in the transcript; model turns <= user turns; model turns  *)
(* = entries holding a formatted response.                                 *)
(***************************************************************************)
Turns(role) == {k \in 1..Len(chatHistory) : chatHistory[k].role = role}

Entries(kind, isHtml) ==
    {k \in 1..Len(transcript) :
        transcript[k].kind = kind /\ transcript[k].isHtml = isHtml}

C18_CountsAgree ==
    /\ Len(exchanges) = Cardinality(Turns("user"))
    /\ Len(exchanges) = Cardinality(Entries("user", FALSE))
    /\ Cardinality(Turns("model")) <= Cardinality(Turns("user"))
    /\ Cardinality(Turns("model")) = Cardinality(Entries("bot", TRUE))

(***************************************************************************)
(* C19.  For every response text: a first line that begins with optional   *)
(* blanks and hyphen-space is rendered as a line break and the bullet      *)
(* glyph, as every later such line; and the output has as many line        *)
(* breaks as the text has newlines.                                        *)
(***************************************************************************)
\* the first line of t is optional blanks, a hyphen and a blank
FirstLineIsBullet(t) ==
    \E k \in 1..(Len(t) - 1) :
        /\ Spaces(t, 1, k - 1)
        /\ t[k] = "-"
        /\ t[k + 1] = " "

C19_EveryBulletLineAndBreak ==
    \A e \in Rendered :
        LET r == ResponseOf(e)
            out == OutputOf(e)
        IN  /\ FirstLineIsBullet(r) =>
                   Len(out) >= 2 /\ out[1] = "<br>" /\ out[2] = BulletGlyph
            /\ HasBulletLine(r) => Count(out, BulletGlyph) >= 1
            /\ Count(out, "<br>") = Count(r, NL)

====
